---- MODULE Spec2Model ----
(***************************************************************************)
(* A model of src/src/http_server.rs: the accept loop of HTTPServer::listen, *)
(* the jobs it hands to the thread pool, and HTTPServer::handle_stream,      *)
(* which reads one request from a connection, parses it, looks the route up  *)
(* and writes the response.                                                  *)
(*                                                                           *)
(* Text that the server parses (the bytes of a request) is a sequence of     *)
(* one-character strings, so that split, find, trim and starts_with are      *)
(* computed character by character as the Rust code computes them.           *)
(***************************************************************************)
EXTENDS Integers, Sequences, FiniteSets, TLC

VARIABLES
    listeners,             \* HTTPServer.listeners: Route -> handler
    default_404_listener,  \* HTTPServer.default_404_listener: Option<handler>
    passthrough,           \* HTTPServer.passthrough
    threads,               \* HTTPServer.threads
    incoming,              \* what listener.incoming() will still yield
    dropped,               \* "connection dropped because of error" lines printed
    conn,                  \* one record per accepted connection (its job)
    queue,                 \* the pool's job queue (connection ids)
    worker                 \* per worker: 0 waiting, c > 0 running job c, -1 gone

vars == <<listeners, default_404_listener, passthrough, threads,
          incoming, dropped, conn, queue, worker>>

(***************************************************************************)
(* Bounds of the model.                                                    *)
(***************************************************************************)
MaxSlashes == 3      \* trailing '/' appended to a request path
MaxParams == 3       \* '&'-separated tokens in a query string
MaxHeaderLines == 2  \* header lines of a generated request
MaxThreads == 2      \* HTTPServer.threads
MaxClients == 3      \* accept outcomes of one run

(***************************************************************************)
(* Strings as sequences of characters, and the str methods the code uses.  *)
(***************************************************************************)
Chars(str) == [i \in 1..Len(str) |-> SubSeq(str, i, i)]

\* The characters of s (s is evaluated once).
Range(s) == UNION {{v[i] : i \in 1..Len(v)} : v \in {s}}

\* A byte that is not valid UTF-8 (0xFF), as one symbol of a stream.
InvalidByte == "xFF"

\* str::find(ch): the 1-based index of the first ch in s, 0 for None.
FindIn(v, ch) ==
    IF \E i \in 1..Len(v) : v[i] = ch
    THEN CHOOSE i \in 1..Len(v) : v[i] = ch /\ \A j \in 1..(i - 1) : v[j] # ch
    ELSE 0

\* Find binds v to the value of s, so that s is evaluated once.
Find(s, ch) == CHOOSE i \in {FindIn(v, ch) : v \in {s}} : TRUE

\* str::split(ch).collect(): every ch separates two parts; "" gives [""].
\* SplitAt splits v at the index i of its first ch; Split binds v to the value
\* of s, so that s is evaluated once however long the string is.
RECURSIVE Split(_, _)
SplitAt(v, i, ch) ==
    IF i = 0 THEN <<v>>
    ELSE <<SubSeq(v, 1, i - 1)>> \o Split(SubSeq(v, i + 1, Len(v)), ch)

Split(s, ch) == CHOOSE parts \in {SplitAt(v, Find(v, ch), ch) : v \in {s}} : TRUE

\* str::starts_with(p), str::ends_with(ch)
StartsWith(s, p) == Len(s) >= Len(p) /\ SubSeq(s, 1, Len(p)) = p

EndsWith(s, ch) == Len(s) >= 1 /\ s[Len(s)] = ch

\* char::is_whitespace on the characters a request can hold.
WhiteSpace == {" ", "\t", "\n", "\r", "\f"}

RECURSIVE TrimStart(_)
TrimStart(s) ==
    IF s # <<>> /\ Head(s) \in WhiteSpace THEN TrimStart(Tail(s)) ELSE s

RECURSIVE TrimEnd(_)
TrimEnd(s) ==
    IF s # <<>> /\ s[Len(s)] \in WhiteSpace
    THEN TrimEnd(SubSeq(s, 1, Len(s) - 1)) ELSE s

\* str::trim()
Trim(s) == CHOOSE t \in {TrimEnd(TrimStart(v)) : v \in {s}} : TRUE

Digits == Chars("0123456789")

DigitVal(ch) == (CHOOSE i \in 1..10 : Digits[i] = ch) - 1

RECURSIVE DecVal(_)
DecVal(ds) ==
    IF ds = <<>> THEN 0
    ELSE 10 * DecVal(SubSeq(ds, 1, Len(ds) - 1)) + DigitVal(ds[Len(ds)])

\* usize::MAX of a 64-bit build, as its decimal digits.
UsizeMaxDigits == Chars("18446744073709551615")

RECURSIVE StripZeros(_)
StripZeros(ds) ==
    IF Len(ds) > 1 /\ Head(ds) = "0" THEN StripZeros(Tail(ds)) ELSE ds

\* The number written ds is at most usize::MAX (compared digit by digit).
FitsUsize(ds) ==
    LET d == StripZeros(ds)
        m == UsizeMaxDigits
    IN  \/ Len(d) < Len(m)
        \/ /\ Len(d) = Len(m)
           /\ \/ d = m
              \/ \E i \in 1..Len(d) :
                     /\ \A k \in 1..(i - 1) : d[k] = m[k]
                     /\ DigitVal(d[i]) < DigitVal(m[i])

\* str::parse::<usize>(): an optional '+', then one or more decimal digits
\* whose value fits a usize.
ParseUsize(s) ==
    LET ds == IF s # <<>> /\ Head(s) = "+" THEN Tail(s) ELSE s
    IN  IF /\ ds # <<>>
           /\ \A i \in 1..Len(ds) : ds[i] \in Range(Digits)
           /\ FitsUsize(ds)
        THEN [ok |-> TRUE, val |-> DecVal(ds)]
        ELSE [ok |-> FALSE, val |-> 0]

\* HashMap::new() and HashMap::insert(k, v): a later insert overwrites.
EmptyMap == [k \in {} |-> <<>>]

Insert(m, k, v) == [x \in (DOMAIN m) \cup {k} |-> IF x = k THEN v ELSE m[x]]

(***************************************************************************)
(* Responses.                                                              *)
(***************************************************************************)
ReasonTable ==
    (100 :> "Continue") @@ (101 :> "Switching Protocols") @@
    (103 :> "Early Hints") @@ (200 :> "OK") @@ (201 :> "Created") @@
    (202 :> "Accepted") @@ (203 :> "Non-Authoritative Information") @@
    (204 :> "No Content") @@ (205 :> "Reset Content") @@
    (206 :> "Partial Content") @@ (300 :> "Multiple Choices") @@
    (301 :> "Moved Permanently") @@ (302 :> "Found") @@
    (303 :> "See Other") @@ (304 :> "Not Modigied") @@
    (307 :> "Temporary Redirect") @@ (308 :> "Permanent Redirect") @@
    (400 :> "Bad Request") @@ (401 :> "Unauthorized") @@
    (402 :> "Payment Required") @@ (403 :> "Forbidden") @@
    (404 :> "Not Found") @@ (405 :> "Method not Allowed") @@
    (406 :> "Not Acceptable") @@ (407 :> "Proxy Authentication Required") @@
    (408 :> "Request Timeout") @@ (409 :> "Conflict") @@ (410 :> "Gone") @@
    (411 :> "Length Required") @@ (412 :> "Precondition Failed") @@
    (413 :> "Payload Too Large") @@ (414 :> "URI Too Long") @@
    (415 :> "Unsupported Media Type") @@ (416 :> "Range not Satisfiable") @@
    (417 :> "Expectation Failed") @@ (418 :> "I'm a teapot") @@
    (422 :> "Unprocessable Entity") @@ (425 :> "Too Early") @@
    (426 :> "Upgrade Required") @@ (428 :> "Precondition Required") @@
    (429 :> "Too Many Requirests") @@
    (431 :> "Request Header Fields Too Large") @@
    (451 :> "Unavailable For Legal Reasons") @@
    (500 :> "Internal Server Error") @@ (501 :> "Not Implemented") @@
    (502 :> "Bad Gateway") @@ (503 :> "Service Unavailable") @@
    (504 :> "Gateway Timeout") @@ (505 :> "HTTP Version Not Supported") @@
    (506 :> "Variant Also Negotiates") @@ (507 :> "Insufficient Storage") @@
    (508 :> "Loop Detected") @@ (510 :> "Not Extended") @@
    (511 :> "Network Authentication Required")

\* http_code_reason(code), for a code of the table (any other code panics).
http_code_reason(code) == ReasonTable[code]

\* HTTPStatus::new(code)
HTTPStatus_new(code) == [status |-> code, reason |-> http_code_reason(code)]

\* The response send_400_default_response writes.
Response400 ==
    [status  |-> HTTPStatus_new(400),
     body    |-> "Received invalid data",
     headers |-> ("Content-Length" :> ToString(21))]

get_404_default_response ==
    [status  |-> HTTPStatus_new(404),
     headers |-> ("Content-Length" :> ToString(56)),
     body    |-> "The requested resource hasn't been found on this server."]

\* default_headers(content) and response_200(Some(body))
default_headers(content) == ("Content-Length" :> ToString(Len(content)))

response_200(body) ==
    [status |-> HTTPStatus_new(200), headers |-> default_headers(body),
     body |-> body]

\* The value of `response` before the match of handle_stream has assigned it.
NoResponse == [status |-> [status |-> 0, reason |-> ""], body |-> "",
               headers |-> EmptyMap]

(***************************************************************************)
(* The socket of one connection, as the reader of handle_stream sees it:   *)
(* stream.data are the bytes the client sends and stream.end says how the  *)
(* stream ends after them: "eof" (the client closed its side: reads return *)
(* 0 bytes) or "err" (the read fails, e.g. a reset connection).            *)
(* pos is the number of bytes the BufReader has handed out so far.         *)
(***************************************************************************)
Unread(stream, pos) == SubSeq(stream.data, pos + 1, Len(stream.data))

\* BufRead::read_line: the bytes up to and including the next '\n', or the rest
\* of the stream at end of file; an error when the read fails or the bytes are
\* not UTF-8.
read_line(stream, pos) ==
    LET rest == Unread(stream, pos)
        i    == Find(rest, "\n")
        line == IF i > 0 THEN SubSeq(rest, 1, i) ELSE rest
    IN  IF (i = 0 /\ stream.end = "err") \/ InvalidByte \in Range(line)
        THEN [ok |-> FALSE, line |-> <<>>]
        ELSE [ok |-> TRUE, line |-> line]

\* Faulty variant of read_exact: everything the client sent is read.
read_to_end(stream, pos, n) ==
    LET rest == Unread(stream, pos)
    IN  IF Len(rest) >= n
        THEN [ok |-> TRUE, buf |-> rest]
        ELSE [ok |-> FALSE, buf |-> <<>>]

\* Read::read_exact on a buffer of n bytes: fails unless n more bytes arrive.
read_exact(stream, pos, n) ==
    LET rest == Unread(stream, pos)
    IN  IF Len(rest) >= n
        THEN [ok |-> TRUE, buf |-> SubSeq(rest, 1, n)]
        ELSE [ok |-> FALSE, buf |-> <<>>]

\* String::from_utf8(content_buffer).unwrap_or_else(|| String::from(""))
BodyOf(content_buffer) ==
    IF InvalidByte \in Range(content_buffer) THEN <<>> ELSE content_buffer

(***************************************************************************)
(* The parsing steps of handle_stream.                                     *)
(***************************************************************************)
\* Faulty variant of EndsHeaderLoop: only a bare "\n" or the end of the stream
\* ends the loop.
EndsHeaderLoopBelowTwo(size) == size < 2

\* `if size < 3 { break; }`: the line that ends the header loop.
EndsHeaderLoop(size) == size < 3

\* `request.split("\n").collect()`
LinesOf(request) == Split(request, "\n")

\* `if lines.len() < 3`
TooFewLines(lines) == Len(lines) < 3

\* `l.split(":").collect()`
HeaderPair(l) == Split(l, ":")

\* Faulty variant of ContentSizeOf: a lenient parse that reads the digits it
\* finds and skips the other characters.
ContentSizeOfDigits(value) ==
    LET ds == SelectSeq(Trim(value), LAMBDA ch : ch \in Range(Digits))
    IN  IF Len(ds) > 9 THEN 0 ELSE DecVal(ds)

\* The value of content_size after a header line l that starts with
\* "Content-Length": the parsed number, 0 when it does not parse.
ContentSizeOf(value) ==
    LET r == ParseUsize(Trim(value)) IN IF r.ok THEN r.val ELSE 0

\* One iteration of the loop `for l in &lines[1..]`, on the line l.
ParseHeaderLine(l, pair, headers, content_size) ==
    IF Len(pair) = 2
    THEN [headers |-> Insert(headers, pair[1], Trim(pair[2])),
          content_size |-> IF StartsWith(l, Chars("Content-Length"))
                           THEN ContentSizeOf(pair[2]) ELSE content_size]
    ELSE [headers |-> headers, content_size |-> content_size]

\* The loop `for l in &lines[1..]`, from the state (headers, content_size):
\* the state after the first line, then the loop on the other lines.
RECURSIVE ParseHeaderLines(_, _, _)
ParseHeaderLines(ls, headers, content_size) ==
    IF ls = <<>>
    THEN [headers |-> headers, content_size |-> content_size]
    ELSE CHOOSE result \in
             {ParseHeaderLines(Tail(v), after.headers, after.content_size) :
                  <<v, after>> \in
                      {<<w, ParseHeaderLine(Head(w), HeaderPair(Head(w)), h, n)>> :
                           <<w, h, n>> \in {<<ls, headers, content_size>>}}} : TRUE

\* `lines[0].split(" ").collect()`
ContextOf(line) == Split(line, " ")

\* Faulty variant of TooFewTokens: the check is off by one.
TooFewTokensOffByOne(context) == Len(context) < 2

\* `if context.len() < 3`
TooFewTokens(context) == Len(context) < 3

\* query_index: the number of characters before the first '?', the length of
\* the target when it has none.
QueryIndex(target) ==
    LET i == Find(target, "?") IN IF i = 0 THEN Len(target) ELSE i - 1

\* `&context[1][..query_index]` and `&context[1][query_index..]`
LocationOf(target) == SubSeq(target, 1, QueryIndex(target))

QueryOf(target) == SubSeq(target, QueryIndex(target) + 1, Len(target))

\* Faulty variant of IsParam: a token with more than one '=' is taken too.
IsParamAtLeastTwo(arms) == Len(arms) >= 2

\* `if arms.len() == 2`
IsParam(arms) == Len(arms) = 2

\* The loop over `.split("&")`, from the map built so far.
RECURSIVE InsertParams(_, _)
InsertParams(params, query_params) ==
    IF params = <<>> THEN query_params
    ELSE LET arms == Split(Head(params), "=")
         IN  InsertParams(Tail(params),
                          IF IsParam(arms)
                          THEN Insert(query_params, arms[1], arms[2])
                          ELSE query_params)

\* query_params as handle_stream builds it from the request target.
QueryParamsOf(target) ==
    LET query == QueryOf(target)
    IN  InsertParams(Split(IF Len(query) # 0 THEN Tail(query) ELSE query, "&"),
                     EmptyMap)

\* Faulty variant of TrimLoop: only one trailing '/' is removed.
TrimOnce(location, trimmed_location) ==
    IF EndsWith(trimmed_location, "/") /\ Len(trimmed_location) > 1
    THEN SubSeq(location, 1, Len(trimmed_location) - 1)
    ELSE trimmed_location

\* The loop `while trimmed_location.ends_with("/") && trimmed_location.len() > 1`.
RECURSIVE TrimLoop(_, _)
TrimLoop(location, trimmed_location) ==
    IF EndsWith(trimmed_location, "/") /\ Len(trimmed_location) > 1
    THEN TrimLoop(location, SubSeq(location, 1, Len(trimmed_location) - 1))
    ELSE trimmed_location

TrimmedLocation(location) == TrimLoop(location, location)

\* enum HTTPMethod
HTTPMethod ==
    {"GET", "HEAD", "POST", "PUT", "DELETE", "CONNECT", "OPTION", "TRACE",
     "PATCH", "INVALID"}

\* `match context[0] { "GET" => HTTPMethod::GET, ... }`
MethodOf(token) ==
    CASE token = Chars("GET")     -> "GET"
      [] token = Chars("HEAD")    -> "HEAD"
      [] token = Chars("POST")    -> "POST"
      [] token = Chars("PUT")     -> "PUT"
      [] token = Chars("DELETE")  -> "DELETE"
      [] token = Chars("CONNECT") -> "CONNECT"
      [] token = Chars("OPTION")  -> "OPTION"
      [] token = Chars("TRACE")   -> "TRACE"
      [] token = Chars("PATCH")   -> "PATCH"
      [] OTHER                    -> "INVALID"

\* struct Route
Route(method, location) == <<method, location>>

\* `listeners.get(&route)`: Some(listener) or None.
Lookup(table, route) ==
    IF route \in DOMAIN table
    THEN [some |-> TRUE, listener |-> table[route]]
    ELSE [some |-> FALSE, listener |-> "none"]

(***************************************************************************)
(* Handlers are code of the host program.  A handler is named by a string; *)
(* it returns a response of its own, and the handler "hPanic" panics.      *)
(***************************************************************************)
HandlerPanics(h) == h = "hPanic"

\* What the handlers return: "h404" a 404 of its own, "hRoot" a response
\* with two headers, "hPUT" one with none, "hDELETE" a status record it
\* filled in field by field, every other handler response_200 of its name.
HandlerResponse(h, headers, body, query_params, pt) ==
    IF h = "h404"
    THEN [status |-> HTTPStatus_new(404), headers |-> default_headers("nope"),
          body |-> "nope"]
    ELSE IF h = "hRoot"
    THEN [status |-> HTTPStatus_new(200),
          headers |-> default_headers("root") @@ ("Content-Type" :> "text/plain"),
          body |-> "root"]
    ELSE IF h = "hPUT"
    THEN [status |-> HTTPStatus_new(204), headers |-> EmptyMap, body |-> ""]
    ELSE IF h = "hDELETE"
    THEN [status |-> [status |-> 200, reason |-> "Deleted"],
          headers |-> default_headers("gone"), body |-> "gone"]
    ELSE response_200(h)

\* One invocation `listener(&headers, &body, &query_params, passthrough)`.
Call(h, headers, body, query_params, pt) ==
    [handler |-> h, headers |-> headers, body |-> body,
     query_params |-> query_params, passthrough |-> pt]

(***************************************************************************)
(* The server configurations and the clients the model is run on.          *)
(***************************************************************************)
NoListener == [some |-> FALSE, listener |-> "none"]

SomeListener(h) == [some |-> TRUE, listener |-> h]

\* Routes of a small application; "/foo/" is registered with a trailing slash.
AppTable ==
    (Route("GET", Chars("/foo")) :> "hGetFoo") @@
    (Route("GET", Chars("/")) :> "hRoot") @@
    (Route("POST", Chars("/foo")) :> "hPostFoo") @@
    (Route("GET", Chars("/foo/")) :> "hSlash") @@
    (Route("GET", Chars("/bar")) :> "hPanic")

\* One route per variant of HTTPMethod at "/foo", each with its own handler.
MethodTable == [r \in {Route(m, Chars("/foo")) : m \in HTTPMethod} |-> "h" \o r[1]]

RouteTables == {AppTable, MethodTable, EmptyMap}

Contexts == {"ctx"}

Configs ==
    {[listeners |-> t, default_404_listener |-> f, passthrough |-> p, threads |-> 1] :
         t \in RouteTables, f \in {NoListener, SomeListener("h404")}, p \in Contexts}
    \cup
    {[listeners |-> AppTable, default_404_listener |-> NoListener,
      passthrough |-> p, threads |-> n] : p \in Contexts, n \in 1..MaxThreads}

SP == <<" ">>

CRLF == Chars("\r\n")

LF == Chars("\n")

\* The sequences over S of length at most n.
SeqsUpTo(S, n) == UNION {[1..k -> S] : k \in 0..n}

\* The parts joined, each followed by sep / separated by sep.
RECURSIVE Terminated(_, _)
Terminated(parts, sep) ==
    IF parts = <<>> THEN <<>> ELSE Head(parts) \o sep \o Terminated(Tail(parts), sep)

RECURSIVE Joined(_, _)
Joined(parts, sep) ==
    IF parts = <<>> THEN <<>>
    ELSE IF Len(parts) = 1 THEN Head(parts)
    ELSE Head(parts) \o sep \o Joined(Tail(parts), sep)

\* A request as a client writes it: request line, header lines, blank line, body.
RequestText(method, target, header_lines, nl, body) ==
    method \o SP \o target \o SP \o Chars("HTTP/1.1") \o nl
    \o Terminated(header_lines, nl) \o nl \o body

Eof(data) == [data |-> data, end |-> "eof"]

Err(data) == [data |-> data, end |-> "err"]

MethodTokens ==
    {Chars(m) : m \in {"GET", "HEAD", "POST", "PUT", "DELETE", "CONNECT",
                       "OPTION", "OPTIONS", "TRACE", "PATCH", "FOO", "get",
                       "INVALID", ""}}

\* Every method token at a registered and at an unregistered path.
MethodStreams ==
    {Eof(RequestText(m, t, <<Chars("Host: x")>>, CRLF, <<>>)) :
         m \in MethodTokens, t \in {Chars("/foo"), Chars("/foo/"), Chars("/x")}}

Slashes(k) == [i \in 1..k |-> "/"]

\* Paths with 0..MaxSlashes trailing slashes, without a query.
PathStreams ==
    {Eof(RequestText(Chars("GET"), base \o Slashes(k), <<>>, CRLF, <<>>)) :
         base \in {<<>>, Chars("/foo"), Chars("/bar"), Chars("/a/b")},
         k \in 0..MaxSlashes}

QueryTokens ==
    {Chars(t) : t \in {"a=1", "a=2", "b=2", "c", "a=1=2", "=", "b?c=3"}}

\* Targets with a query string of 0..MaxParams tokens.
QueryStreams ==
    {Eof(RequestText(Chars("GET"), Chars("/foo?") \o Joined(toks, Chars("&")),
                     <<>>, CRLF, <<>>)) :
         toks \in SeqsUpTo(QueryTokens, MaxParams)}

HeaderLines ==
    {Chars(l) : l \in {"Host: x", "Host:y ", "Host: example:8080", "NoColon",
                       "Content-Length: 2", "Content-Length: abc",
                       "content-length: 1"}}

Bodies == {<<>>, Chars("h"), Chars("hi"), Chars("hi!"), <<"h", InvalidByte>>}

\* Requests with 0..MaxHeaderLines header lines and a body.
HeaderStreams ==
    {Eof(RequestText(Chars("POST"), Chars("/foo"), hs, CRLF, body)) :
         hs \in SeqsUpTo(HeaderLines, MaxHeaderLines), body \in Bodies}

\* Requests whose lines end in a bare LF.
LfStreams ==
    {Eof(RequestText(Chars("GET"), Chars("/foo/?a=1"), hs, LF, body)) :
         hs \in SeqsUpTo({Chars("Host: x"), Chars("Content-Length: 2")}, 1),
         body \in {<<>>, Chars("hi")}}

LengthLines ==
    {Chars(l) : l \in {"Content-Length: 2", "Content-Length: abc",
                       "Content-Length: -1", "Content-Length:",
                       "Content-Length: +1", "Content-Length:\t3 ",
                       "Content-Length-X: 1", "Content-Length: 2:3",
                       "content-length: 1", " Content-Length: 1",
                       "Content-Length: 99999999999999999999"}}

\* Requests with 0..MaxHeaderLines lines that look like Content-Length and a
\* three-byte body.
LengthStreams ==
    {Eof(RequestText(Chars("POST"), Chars("/foo"), hs, CRLF, Chars("hi!"))) :
         hs \in SeqsUpTo(LengthLines, MaxHeaderLines)}

SampleRequest ==
    RequestText(Chars("POST"), Chars("/foo"), <<Chars("Content-Length: 2")>>,
                CRLF, Chars("hi"))

\* A request cut short at any byte, by end of file or by a failing read.
PrefixStreams ==
    {[data |-> SubSeq(SampleRequest, 1, n), end |-> e] :
         n \in 0..Len(SampleRequest), e \in {"eof", "err"}}

\* Request lines with too few, empty, or extra tokens, and non-UTF-8 headers.
ShapeStreams ==
    {Eof(Chars(l) \o CRLF \o CRLF) :
         l \in {"GET", "GET /foo", "GET /foo HTTP/1.1 extra", "GET  HTTP/1.1",
                "GET /foo ", " /foo HTTP/1.1", "GET\t/foo\tHTTP/1.1"}}
    \cup {Eof(Chars(l) \o CRLF \o Chars("Content-Length: 2") \o CRLF \o CRLF
              \o Chars("hi")) : l \in {"GET", "GET /foo", "GET /foo HTTP/1.1"}}
    \cup {Eof(Chars("GET /foo HTTP/1.1") \o CRLF \o <<"X", ":", InvalidByte>> \o CRLF \o CRLF),
          Eof(Chars("GET /foo HTTP/1.1") \o CRLF \o Chars("Host: x") \o CRLF \o Chars("a") \o LF)}

Streams ==
    MethodStreams \cup PathStreams \cup QueryStreams \cup HeaderStreams
    \cup LfStreams \cup PrefixStreams \cup ShapeStreams \cup LengthStreams

\* What listener.incoming() yields: a connection, or an error of accept.
Accepted(stream) == [ok |-> TRUE, stream |-> stream]

AcceptError == [ok |-> FALSE, stream |-> Eof(<<>>)]

(***************************************************************************)
(* The state after HTTPServer is constructed and listen() has bound the    *)
(* socket and built the pool: no connection yet, every worker waiting.     *)
(***************************************************************************)
\* The job `move || handle_stream(&stream, cloned_listeners, cloned_404_handler,
\* &pt)` with the locals of handle_stream, before it has run.
NewJob(stream, pt) ==
    [stream |-> stream, pt |-> pt, pc |-> "queued",
     pos |-> 0, request |-> <<>>,
     headers |-> EmptyMap, content_size |-> 0, context |-> <<>>,
     body |-> <<>>, location |-> <<>>, query_params |-> EmptyMap,
     route |-> <<>>, response |-> NoResponse,
     lookups |-> 0, calls |-> <<>>, sent |-> <<>>, wire |-> <<>>]

InitServer(cfg) ==
    /\ listeners = cfg.listeners
    /\ default_404_listener = cfg.default_404_listener
    /\ passthrough = cfg.passthrough
    /\ threads = cfg.threads
    /\ dropped = 0
    /\ conn = <<>>
    /\ queue = <<>>
    /\ worker = [w \in 1..cfg.threads |-> 0]

\* One client with any request of Streams; accept may fail before it connects.
Init ==
    /\ \E cfg \in Configs : InitServer(cfg)
    /\ incoming \in {<<Accepted(s)>> : s \in Streams}
                    \cup {<<AcceptError, Accepted(s)>> : s \in ShapeStreams}

config == <<listeners, default_404_listener, passthrough, threads>>

(***************************************************************************)
(* listen(): one iteration of `for stream in listener.incoming()`.         *)
(***************************************************************************)
\* Faulty variant of execute: the job is put in front of the queue.
execute_in_front(q, c) == <<c>> \o q

\* pool.execute(job): the job joins the end of the queue.
execute(q, c) == Append(q, c)

\* Faulty variant of Accept: an error of accept ends the loop.
AcceptStopsOnError ==
    /\ incoming # <<>>
    /\ \/ /\ Head(incoming).ok
          /\ incoming' = Tail(incoming)
          /\ conn' = Append(conn, NewJob(Head(incoming).stream, passthrough))
          /\ queue' = execute(queue, Len(conn) + 1)
          /\ UNCHANGED dropped
       \/ /\ ~Head(incoming).ok
          /\ incoming' = <<>>
          /\ dropped' = dropped + 1
          /\ UNCHANGED <<conn, queue>>
    /\ UNCHANGED <<config, worker>>

Accept ==
    /\ incoming # <<>>
    /\ incoming' = Tail(incoming)
    /\ \/ /\ Head(incoming).ok
          /\ conn' = Append(conn, NewJob(Head(incoming).stream, passthrough))
          /\ queue' = execute(queue, Len(conn) + 1)
          /\ UNCHANGED dropped
       \/ /\ ~Head(incoming).ok
          /\ dropped' = dropped + 1
          /\ UNCHANGED <<conn, queue>>
    /\ UNCHANGED <<config, worker>>

\* A waiting worker takes the job at the head of the queue and starts it.
WorkerTake(w) ==
    /\ worker[w] = 0
    /\ queue # <<>>
    /\ worker' = [worker EXCEPT ![w] = Head(queue)]
    /\ queue' = Tail(queue)
    /\ conn' = [conn EXCEPT ![Head(queue)].pc = "read_line"]
    /\ UNCHANGED <<config, incoming, dropped>>

\* Faulty variant of JobReturned: the worker does not take another job.
JobReturnedIdles(w) == worker

\* The worker whose job returned waits for the next job; the thread of a
\* worker whose job panicked is gone.
JobReturned(w) == [worker EXCEPT ![w] = 0]

JobPanicked(w) == [worker EXCEPT ![w] = -1]

(***************************************************************************)
(* handle_stream, step by step, on the worker that runs the job.           *)
(***************************************************************************)
\* The orders in which `headers.iter()` may yield the entries of a HashMap.
Orders(headers) ==
    {o \in [1..Cardinality(DOMAIN headers) -> DOMAIN headers] :
         \A a, b \in DOMAIN o : o[a] = o[b] => a = b}

\* Faulty variant of parse_headers: a space after the colon, lines ended CRLF.
RECURSIVE parse_headers_crlf(_, _)
parse_headers_crlf(headers, order) ==
    IF order = <<>> THEN ""
    ELSE order[1] \o ": " \o headers[order[1]] \o "\r\n"
             \o parse_headers_crlf(headers, Tail(order))

\* parse_headers(headers), the entries iterated in the given order.
RECURSIVE parse_headers(_, _)
parse_headers(headers, order) ==
    IF order = <<>> THEN ""
    ELSE order[1] \o ":" \o headers[order[1]] \o "\n"
             \o parse_headers(headers, Tail(order))

\* The text `format!("HTTP/1.1 {} {}\r\n{}\r\n{}", ..)` of close_stream.
ResponseText(response, order) ==
    "HTTP/1.1 " \o ToString(response.status.status) \o " "
        \o response.status.reason \o "\r\n"
        \o parse_headers(response.headers, order) \o "\r\n" \o response.body

\* close_stream(stream, response): the text is written to the socket in one
\* write, which is taken to accept all of it, and flushed.
close_stream(j, response, order) ==
    [j EXCEPT !.sent = Append(@, response),
              !.wire = Append(@, ResponseText(response, order))]

send_400_default_response(j) ==
    close_stream(j, Response400, CHOOSE o \in Orders(Response400.headers) : TRUE)

\* One iteration of the loop that reads the request line and the headers.
ReadLine(w) ==
    /\ worker[w] > 0
    /\ LET c == worker[w]
           j == conn[c]
           r == read_line(j.stream, j.pos)
           size == Len(r.line)
       IN  /\ j.pc = "read_line"
           /\ IF ~r.ok
              THEN /\ conn' = [conn EXCEPT ![c] =
                          [send_400_default_response(j) EXCEPT !.pc = "returned"]]
                   /\ worker' = JobReturned(w)
              ELSE /\ conn' = [conn EXCEPT ![c] =
                          [j EXCEPT !.request = @ \o r.line,
                                    !.pos = @ + size,
                                    !.pc = IF EndsHeaderLoop(size)
                                           THEN "parse" ELSE "read_line"]]
                   /\ UNCHANGED worker
    /\ UNCHANGED <<config, incoming, dropped, queue>>

\* From the split into lines to the check of the request line's tokens.
ParseRequest(w) ==
    /\ worker[w] > 0
    /\ LET c == worker[w]
           j == conn[c]
           lines == LinesOf(j.request)
           parsed == ParseHeaderLines(Tail(lines), EmptyMap, 0)
           context == ContextOf(lines[1])
       IN  /\ j.pc = "parse"
           /\ IF TooFewLines(lines)
              THEN /\ conn' = [conn EXCEPT ![c] =
                          [send_400_default_response(j) EXCEPT !.pc = "returned"]]
                   /\ worker' = JobReturned(w)
              ELSE IF TooFewTokens(context)
              THEN /\ conn' = [conn EXCEPT ![c] =
                          [send_400_default_response(j) EXCEPT
                               !.pc = "returned",
                               !.headers = parsed.headers,
                               !.content_size = parsed.content_size,
                               !.context = context]]
                   /\ worker' = JobReturned(w)
              ELSE /\ conn' = [conn EXCEPT ![c] =
                          [j EXCEPT !.pc = "read_body",
                                    !.headers = parsed.headers,
                                    !.content_size = parsed.content_size,
                                    !.context = context]]
                   /\ UNCHANGED worker
    /\ UNCHANGED <<config, incoming, dropped, queue>>

\* read_exact of the body (its unwrap panics when the read fails), then the
\* split of the request target and the decoding of the body.
ReadBody(w) ==
    /\ worker[w] > 0
    /\ LET c == worker[w]
           j == conn[c]
           r == read_exact(j.stream, j.pos, j.content_size)
       IN  /\ j.pc = "read_body"
           /\ IF ~r.ok
              THEN /\ conn' = [conn EXCEPT ![c].pc = "panicked"]
                   /\ worker' = JobPanicked(w)
              ELSE /\ conn' = [conn EXCEPT ![c] =
                          [j EXCEPT !.pc = "dispatch",
                                    !.pos = @ + j.content_size,
                                    !.location = LocationOf(j.context[2]),
                                    !.query_params = QueryParamsOf(j.context[2]),
                                    !.body = BodyOf(r.buf)]]
                   /\ UNCHANGED worker
    /\ UNCHANGED <<config, incoming, dropped, queue>>

\* Faulty variants of Chosen: the fallback wins over a route; the fallback is
\* ignored.
ChosenFallbackFirst(found, fallback) == IF fallback.some THEN fallback ELSE found

ChosenWithoutFallback(found, fallback) == found

\* The listener that answers a request: the route's, else the 404 fallback.
Chosen(found, fallback) == IF found.some THEN found ELSE fallback

\* The `match listeners.get(&Route {..})`: the route key is built (an
\* unrecognized method sends the 400 response while it is), the table is
\* consulted and the listener found, or the 404 fallback, is invoked.
Dispatch(w) ==
    /\ worker[w] > 0
    /\ LET c == worker[w]
           j == conn[c]
           method == MethodOf(j.context[1])
           j1 == IF method = "INVALID" THEN send_400_default_response(j) ELSE j
           route == Route(method, TrimmedLocation(j.location))
           chosen == Chosen(Lookup(listeners, route), default_404_listener)
           h == chosen.listener
           j2 == [j1 EXCEPT !.route = route, !.lookups = @ + 1]
           j3 == [j2 EXCEPT !.calls = Append(@,
                      Call(h, j.headers, j.body, j.query_params, j.pt))]
       IN  /\ j.pc = "dispatch"
           /\ IF ~chosen.some
              THEN /\ conn' = [conn EXCEPT ![c] =
                          [j2 EXCEPT !.pc = "close",
                                     !.response = get_404_default_response]]
                   /\ UNCHANGED worker
              ELSE IF HandlerPanics(h)
              THEN /\ conn' = [conn EXCEPT ![c] = [j3 EXCEPT !.pc = "panicked"]]
                   /\ worker' = JobPanicked(w)
              ELSE /\ conn' = [conn EXCEPT ![c] =
                          [j3 EXCEPT !.pc = "close",
                                     !.response = HandlerResponse(
                                         h, j.headers, j.body, j.query_params, j.pt)]]
                   /\ UNCHANGED worker
    /\ UNCHANGED <<config, incoming, dropped, queue>>

\* `HTTPServer::<T>::close_stream(stream, &response)`, the last statement.
CloseStream(w) ==
    /\ worker[w] > 0
    /\ LET c == worker[w]
           j == conn[c]
       IN  /\ j.pc = "close"
           /\ \E order \in Orders(j.response.headers) :
                  conn' = [conn EXCEPT ![c] =
                      [close_stream(j, j.response, order) EXCEPT !.pc = "returned"]]
    /\ worker' = JobReturned(w)
    /\ UNCHANGED <<config, incoming, dropped, queue>>

Next ==
    \/ Accept
    \/ \E w \in 1..threads : WorkerTake(w)
    \/ \E w \in 1..threads : ReadLine(w)
    \/ \E w \in 1..threads : ParseRequest(w)
    \/ \E w \in 1..threads : ReadBody(w)
    \/ \E w \in 1..threads : Dispatch(w)
    \/ \E w \in 1..threads : CloseStream(w)

Spec == Init /\ [][Next]_vars

\* The steps of worker w.  A worker is a thread of its own: it is not held
\* back forever while it has a step to take.
Work(w) ==
    /\ w \in 1..threads
    /\ \/ WorkerTake(w) \/ ReadLine(w) \/ ParseRequest(w)
       \/ ReadBody(w) \/ Dispatch(w) \/ CloseStream(w)

Fairness == \A w \in 1..MaxThreads : WF_vars(Work(w))

\* One client whose request is cut short at any byte, has lines ended by a
\* bare LF, has an odd request line or holds bytes that are not UTF-8.
HeaderLoopStreams ==
    PrefixStreams \cup LfStreams \cup ShapeStreams
    \cup {Eof(Chars("GET /foo HTTP/1.1") \o CRLF \o <<"X", ":", InvalidByte>>
               \o CRLF \o CRLF)}

HeaderLoopInit ==
    /\ InitServer([listeners |-> AppTable, default_404_listener |-> NoListener,
                   passthrough |-> "ctx", threads |-> 1])
    /\ incoming \in {<<Accepted(s)>> : s \in HeaderLoopStreams}
                    \cup {<<AcceptError, Accepted(Eof(SampleRequest))>>}

HeaderLoopSpec == HeaderLoopInit /\ [][Next]_vars /\ Fairness

\* Clients that deliver a complete request (request line, headers, blank line
\* and the Content-Length bytes of the body) to a server whose handlers all
\* return: a route hit with a body, a miss and an unrecognized method.
CompleteStreams ==
    {Eof(SampleRequest),
     Eof(RequestText(Chars("GET"), Chars("/nope"), <<>>, CRLF, <<>>)),
     Eof(RequestText(Chars("FOO"), Chars("/foo"), <<>>, CRLF, <<>>))}

CompleteInit ==
    /\ \E n \in 1..MaxThreads :
           InitServer([listeners |-> MethodTable, default_404_listener |-> NoListener,
                       passthrough |-> "ctx", threads |-> n])
    /\ incoming \in SeqsUpTo({AcceptError} \cup {Accepted(s) : s \in CompleteStreams},
                             MaxClients)

CompleteSpec == CompleteInit /\ [][Next]_vars /\ Fairness /\ WF_vars(Accept)

(***************************************************************************)
(* The server with several clients: any sequence of at most MaxClients     *)
(* accept outcomes, in front of a pool of 1..MaxThreads workers.           *)
(***************************************************************************)
\* A request that is answered 200, one whose handler panics, one whose body
\* is shorter than its Content-Length, and one that is answered 400.
PoolStreams ==
    {Eof(RequestText(Chars("GET"), Chars("/foo"), <<>>, CRLF, <<>>)),
     Eof(RequestText(Chars("GET"), Chars("/bar"), <<>>, CRLF, <<>>)),
     Eof(RequestText(Chars("POST"), Chars("/foo"), <<Chars("Content-Length: 2")>>,
                     CRLF, Chars("h"))),
     Eof(CRLF)}

PoolInit ==
    /\ \E n \in 1..MaxThreads :
           InitServer([listeners |-> AppTable, default_404_listener |-> NoListener,
                       passthrough |-> "ctx", threads |-> n])
    /\ incoming \in SeqsUpTo({AcceptError} \cup {Accepted(s) : s \in PoolStreams},
                             MaxClients)

PoolSpec == PoolInit /\ [][Next]_vars

(***************************************************************************)
(* Vocabulary of the properties below.  These definitions state what a     *)
(* request is by its text; they do not use the parsing steps above.        *)
(***************************************************************************)
Finished(j) == j.pc \in {"returned", "panicked"}

CountOf(s, ch) == Cardinality({i \in 1..Len(s) : s[i] = ch})

\* The text before the first ch of s (all of s without one), and the text
\* after it (empty without one).
Before(s, ch) ==
    LET n == CHOOSE n \in 0..Len(s) :
                 /\ \A i \in 1..n : s[i] # ch
                 /\ n = Len(s) \/ s[n + 1] = ch
    IN  SubSeq(s, 1, n)

After(s, ch) == SubSeq(s, Len(Before(s, ch)) + 2, Len(s))

\* key is path with its trailing '/' removed, but not the '/' it starts with.
IsNormalizedOf(key, path) ==
    /\ Len(key) <= Len(path)
    /\ key = SubSeq(path, 1, Len(key))
    /\ \A i \in (Len(key) + 1)..Len(path) : path[i] = "/"
    /\ Len(key) > 1 => key[Len(key)] # "/"
    /\ Len(key) < Len(path) => Len(key) >= 1

NormalizedPath(target) ==
    LET path == Before(target, "?")
    IN  CHOOSE key \in {SubSeq(path, 1, n) : n \in 0..Len(path)} :
            IsNormalizedOf(key, path)

\* The method names the server recognizes, and a token's name among them.
MethodNames == HTTPMethod \ {"INVALID"}

Recognized(token) == \E m \in MethodNames : Chars(m) = token

MethodName(token) == CHOOSE m \in MethodNames : Chars(m) = token

\* The request passed the checks of its lines and of its request line.
PassedValidation(j) ==
    /\ j.pc \in {"read_body", "dispatch", "close", "returned", "panicked"}
    /\ Len(j.context) >= 3

\* The stream holds content_size bytes after the header lines.
BodyAvailable(j) == Len(j.stream.data) - Len(j.request) >= j.content_size

\* A finished job whose request was well formed, with a recognized method.
WellFormed(j) ==
    /\ Finished(j)
    /\ PassedValidation(j)
    /\ BodyAvailable(j)
    /\ Recognized(j.context[1])

ExpectedRoute(j) == <<MethodName(j.context[1]), NormalizedPath(j.context[2])>>

RouteHandlers == {listeners[r] : r \in DOMAIN listeners}

(***************************************************************************)
(* C1: a well-formed request (three request-line tokens, a method the      *)
(* server recognizes, the body available) whose (method, normalized path)  *)
(* key is in the route table has exactly the handler registered under that *)
(* key invoked, once, with the parsed headers, body, query map and the     *)
(* context; the fallback is not invoked, and the response written is the   *)
(* one that handler returned.                                              *)
(***************************************************************************)
C1_RouteHitInvokesHandler ==
    \A c \in DOMAIN conn :
        LET j == conn[c]
        IN  (WellFormed(j) /\ ExpectedRoute(j) \in DOMAIN listeners) =>
                LET h == listeners[ExpectedRoute(j)]
                IN  /\ j.lookups = 1
                    /\ j.calls = <<Call(h, j.headers, j.body, j.query_params,
                                        passthrough)>>
                    /\ IF HandlerPanics(h)
                       THEN j.pc = "panicked" /\ j.sent = <<>>
                       ELSE /\ j.pc = "returned"
                            /\ j.sent = <<HandlerResponse(h, j.headers, j.body,
                                              j.query_params, passthrough)>>

\* POST /foo with a two-byte body reached hPostFoo while a fallback is set.
C1_Witness ==
    \E c \in DOMAIN conn :
        /\ WellFormed(conn[c])
        /\ default_404_listener.some
        /\ conn[c].context[1] = Chars("POST")
        /\ conn[c].body = Chars("hi")
        /\ conn[c].calls # <<>>
        /\ conn[c].calls[1].handler = "hPostFoo"
        /\ conn[c].sent = <<response_200("hPostFoo")>>

(***************************************************************************)
(* C2: a well-formed request with a recognized method whose key is not in  *)
(* the route table invokes no route handler; the response written is the   *)
(* fallback's when one is registered, else the built-in 404: status 404,   *)
(* reason "Not Found", Content-Length 56 and the 56-byte body.             *)
(***************************************************************************)
C2_RouteMissFallsBack ==
    \A c \in DOMAIN conn :
        LET j == conn[c]
        IN  (WellFormed(j) /\ ExpectedRoute(j) \notin DOMAIN listeners) =>
                /\ j.pc = "returned"
                /\ j.lookups = 1
                /\ \A i \in 1..Len(j.calls) : j.calls[i].handler \notin RouteHandlers
                /\ IF default_404_listener.some
                   THEN LET h == default_404_listener.listener
                        IN  /\ j.calls = <<Call(h, j.headers, j.body,
                                                j.query_params, passthrough)>>
                            /\ j.sent = <<HandlerResponse(h, j.headers, j.body,
                                              j.query_params, passthrough)>>
                   ELSE /\ j.calls = <<>>
                        /\ Len(j.sent) = 1
                        /\ j.sent[1].status = [status |-> 404, reason |-> "Not Found"]
                        /\ j.sent[1].headers = ("Content-Length" :> "56")
                        /\ j.sent[1].body =
                               "The requested resource hasn't been found on this server."
                        /\ Len(j.sent[1].body) = 56

\* Both kinds of miss: one answered by the fallback, one by the built-in 404.
C2_Witness ==
    \E c \in DOMAIN conn :
        /\ WellFormed(conn[c])
        /\ ExpectedRoute(conn[c]) \notin DOMAIN listeners
        /\ listeners # EmptyMap
        /\ conn[c].context[2] = Chars("/x")
        /\ \/ conn[c].sent = <<get_404_default_response>>
           \/ (conn[c].calls # <<>> /\ conn[c].calls[1].handler = "h404")

(***************************************************************************)
(* C3: when the method token is not a recognized method, the connection is *)
(* answered with the built-in 400 response and closed without any handler  *)
(* dispatch: no route handler and no fallback is invoked.                  *)
(***************************************************************************)
C3_InvalidMethodOnly400 ==
    \A c \in DOMAIN conn :
        LET j == conn[c]
        IN  (Finished(j) /\ PassedValidation(j) /\ BodyAvailable(j)
             /\ ~Recognized(j.context[1])) =>
                /\ j.pc = "returned"
                /\ j.sent = <<Response400>>
                /\ j.calls = <<>>

(***************************************************************************)
(* C4: at most one response is written on a connection: close_stream is    *)
(* never executed twice, and nothing follows the built-in 400.             *)
(***************************************************************************)
C4_AtMostOneResponse ==
    \A c \in DOMAIN conn :
        /\ Len(conn[c].sent) <= 1
        /\ \A i \in 1..Len(conn[c].sent) :
               conn[c].sent[i] = Response400 => i = Len(conn[c].sent)

(***************************************************************************)
(* C5: when the stream ends before content_size body bytes have arrived,   *)
(* the connection is answered with the built-in 400 response, no handler   *)
(* is invoked, and the job returns instead of panicking.                   *)
(***************************************************************************)
C5_ShortBodyAnswered400 ==
    \A c \in DOMAIN conn :
        LET j == conn[c]
        IN  (Finished(j) /\ PassedValidation(j) /\ ~BodyAvailable(j)) =>
                /\ j.pc = "returned"
                /\ j.sent = <<Response400>>
                /\ j.calls = <<>>

(***************************************************************************)
(* C6: when the header buffer splits on '\n' into fewer than 3 lines, or   *)
(* its first line splits on ' ' into fewer than 3 tokens, handle_stream    *)
(* writes exactly the built-in 400 response and returns: no handler and no *)
(* fallback is invoked, the route table is not consulted and no body byte  *)
(* is read from the stream.                                                *)
(***************************************************************************)
Malformed(request) ==
    \/ CountOf(request, "\n") + 1 < 3
    \/ CountOf(Before(request, "\n"), " ") + 1 < 3

C6_MalformedOnly400 ==
    \A c \in DOMAIN conn :
        LET j == conn[c]
        IN  (j.pc \notin {"queued", "read_line", "parse"} /\ Malformed(j.request)) =>
                /\ j.pc = "returned"
                /\ Len(j.sent) = 1
                /\ j.sent[1].status = [status |-> 400, reason |-> "Bad Request"]
                /\ j.sent[1].headers = ("Content-Length" :> "21")
                /\ j.sent[1].body = "Received invalid data"
                /\ Len(j.sent[1].body) = 21
                /\ j.calls = <<>>
                /\ j.lookups = 0
                /\ j.pos = Len(j.request)

\* A two-token request line ahead of a Content-Length header and a body.
C6_Witness ==
    \E c \in DOMAIN conn :
        /\ conn[c].pc = "returned"
        /\ CountOf(conn[c].request, "\n") + 1 >= 3
        /\ CountOf(Before(conn[c].request, "\n"), " ") + 1 = 2
        /\ conn[c].content_size = 2
        /\ Len(conn[c].stream.data) = conn[c].pos + 2
        /\ conn[c].sent = <<Response400>>

(***************************************************************************)
(* C7: the path of the route key is the part of the request target before  *)
(* the first '?' with its trailing '/' removed while longer than 1: it     *)
(* ends in '/' only when it is "/"; "/foo", "/foo/" and "/foo///" give     *)
(* "/foo"; an all-slash path gives "/"; normalizing the key again changes  *)
(* nothing.                                                                *)
(***************************************************************************)
C7_RouteKeyIsNormalizedPath ==
    \A c \in DOMAIN conn :
        LET j == conn[c]
            path == Before(j.context[2], "?")
            key == j.route[2]
        IN  j.lookups > 0 =>
                /\ IsNormalizedOf(key, path)
                /\ key = Chars("/") \/ key = <<>> \/ key[Len(key)] # "/"
                /\ path \in {Chars("/foo"), Chars("/foo/"), Chars("/foo///")}
                       => key = Chars("/foo")
                /\ (path # <<>> /\ Range(path) = {"/"}) => key = Chars("/")
                /\ TrimmedLocation(key) = key

\* GET /foo/// reached the handler registered at /foo.
C7_Witness ==
    \E c \in DOMAIN conn :
        /\ conn[c].lookups > 0
        /\ conn[c].context[2] = Chars("/foo///")
        /\ conn[c].route = Route("GET", Chars("/foo"))
        /\ conn[c].calls # <<>>
        /\ conn[c].calls[1].handler = "hGetFoo"

(***************************************************************************)
(* C8: the query map has an entry for a '&'-separated token of the text    *)
(* after the first '?' exactly when the token holds one '=': key and value *)
(* are the text before and after it; other tokens are dropped, a target    *)
(* without '?' gives an empty map, and the last token of a key wins.       *)
(***************************************************************************)
QueryParsed(j) ==
    \/ j.pc \in {"dispatch", "close"}
    \/ Finished(j) /\ j.lookups > 0

C8_QueryMap ==
    \A c \in DOMAIN conn :
        LET j == conn[c]
            target == j.context[2]
            toks == IF "?" \in Range(target)
                    THEN Split(After(target, "?"), "&") ELSE <<>>
            Pairs == {i \in 1..Len(toks) : CountOf(toks[i], "=") = 1}
        IN  QueryParsed(j) =>
                /\ DOMAIN j.query_params = {Before(toks[i], "=") : i \in Pairs}
                /\ \A i \in Pairs :
                       (\A k \in Pairs : k > i => Before(toks[k], "=") # Before(toks[i], "="))
                           => j.query_params[Before(toks[i], "=")] = After(toks[i], "=")
                /\ "?" \notin Range(target) => j.query_params = EmptyMap

\* ?a=1&a=2&c : the second a wins and the token without '=' is dropped.
C8_Witness ==
    \E c \in DOMAIN conn :
        /\ QueryParsed(conn[c])
        /\ conn[c].context[2] = Chars("/foo?a=1&a=2&c")
        /\ conn[c].query_params = (Chars("a") :> Chars("2"))
        /\ conn[c].calls # <<>>
        /\ conn[c].calls[1].query_params = (Chars("a") :> Chars("2"))

(***************************************************************************)
(* C9: every line after the request line that holds a ':' is split at its  *)
(* first ':' only and gives a header entry: the key is the text before     *)
(* that ':', the value the trimmed rest ("Host: example:8080" gives Host   *)
(* -> example:8080); only lines without ':' are skipped, and a later line  *)
(* with the same key overwrites.                                           *)
(***************************************************************************)
HeadersParsed(j) == j.context # <<>>

C9_HeaderSplitAtFirstColon ==
    \A c \in DOMAIN conn :
        LET j == conn[c]
            ls == Tail(Split(j.request, "\n"))
            WithColon == {i \in 1..Len(ls) : ":" \in Range(ls[i])}
        IN  HeadersParsed(j) =>
                /\ DOMAIN j.headers = {Before(ls[i], ":") : i \in WithColon}
                /\ \A i \in WithColon :
                       (\A k \in WithColon : k > i => Before(ls[k], ":") # Before(ls[i], ":"))
                           => j.headers[Before(ls[i], ":")] = Trim(After(ls[i], ":"))

(***************************************************************************)
(* C10: each of the tokens GET, HEAD, POST, PUT, DELETE, CONNECT, OPTIONS, *)
(* TRACE and PATCH is recognized and has its own route-key method: such a  *)
(* request is not answered with 400 and reaches the handler registered for *)
(* its method at that path.                                                *)
(***************************************************************************)
\* The variant of HTTPMethod that stands for a method token of HTTP.
VariantOf(token) ==
    IF token = Chars("OPTIONS") THEN "OPTION"
    ELSE CHOOSE m \in MethodNames : Chars(m) = token

StandardTokens ==
    {Chars(m) : m \in {"GET", "HEAD", "POST", "PUT", "DELETE", "CONNECT",
                       "OPTIONS", "TRACE", "PATCH"}}

C10_NineMethodsDispatched ==
    /\ \A t1, t2 \in StandardTokens : t1 # t2 => MethodOf(t1) # MethodOf(t2)
    /\ \A c \in DOMAIN conn :
           LET j == conn[c]
               route == Route(VariantOf(j.context[1]), NormalizedPath(j.context[2]))
           IN  (Finished(j) /\ PassedValidation(j) /\ BodyAvailable(j)
                /\ j.context[1] \in StandardTokens) =>
                   /\ \A i \in 1..Len(j.sent) : j.sent[i].status.status # 400
                   /\ j.route = route
                   /\ route \in DOMAIN listeners =>
                          /\ j.calls # <<>>
                          /\ j.calls[1].handler = listeners[route]

(***************************************************************************)
(* C11: when the value of the Content-Length header does not parse as a    *)
(* non-negative integer ("abc", "-1", empty), the body length is 0: no     *)
(* body byte is read, no 400 is produced, and the request goes on to route *)
(* lookup and dispatch with an empty body.                                 *)
(***************************************************************************)
\* The header lines of the buffer, and those among them that set content_size:
\* they begin with "Content-Length" and hold exactly one ':'.
HeaderLinesOf(request) == Tail(Split(request, "\n"))

LengthLinesOf(request) ==
    LET ls == HeaderLinesOf(request)
    IN  {i \in 1..Len(ls) :
             /\ Len(ls[i]) >= 14
             /\ SubSeq(ls[i], 1, 14) = Chars("Content-Length")
             /\ CountOf(ls[i], ":") = 1}

HasLength(request) == LengthLinesOf(request) # {}

\* The trimmed value of the last of them.
LastLength(request) ==
    LET ls == HeaderLinesOf(request)
        i == CHOOSE i \in LengthLinesOf(request) :
                 \A k \in LengthLinesOf(request) : k <= i
    IN  Trim(After(ls[i], ":"))

\* v is written as a non-negative integer: digits, after an optional '+'.
IsNumeral(v) ==
    LET d == IF v # <<>> /\ v[1] = "+" THEN Tail(v) ELSE v
    IN  d # <<>> /\ Range(d) \subseteq {"0", "1", "2", "3", "4", "5", "6", "7", "8", "9"}

C11_BadLengthIsZero ==
    \A c \in DOMAIN conn :
        LET j == conn[c]
        IN  (PassedValidation(j) /\ HasLength(j.request)
             /\ ~IsNumeral(LastLength(j.request))) =>
                /\ j.content_size = 0
                /\ j.pos = Len(j.request)
                /\ j.pc # "read_body" => j.body = <<>>
                /\ Finished(j) =>
                       /\ j.lookups = 1
                       /\ \A i \in 1..Len(j.calls) : j.calls[i].body = <<>>
                       /\ Recognized(j.context[1]) =>
                              /\ \A i \in 1..Len(j.sent) : j.sent[i] # Response400
                              /\ j.pc = "panicked" => j.calls # <<>>

\* Content-Length: -1 ahead of a three-byte body: the handler is reached with
\* an empty body and the three bytes are left unread.
C11_Witness ==
    \E c \in DOMAIN conn :
        /\ conn[c].pc = "returned"
        /\ HasLength(conn[c].request)
        /\ LastLength(conn[c].request) = Chars("-1")
        /\ Len(conn[c].stream.data) = conn[c].pos + 3
        /\ conn[c].calls # <<>>
        /\ conn[c].calls[1].body = <<>>
        /\ conn[c].sent = <<response_200(conn[c].calls[1].handler)>>

(***************************************************************************)
(* C12: the bytes written for a response are the status line "HTTP/1.1 ",  *)
(* the status code, a space, the reason phrase, CRLF; one line "key:value" *)
(* ended by a single LF for each header of the response, each header once; *)
(* one CRLF; the body, and nothing after it.  Nothing else is written.     *)
(***************************************************************************)
StatusLineOf(response) ==
    Chars("HTTP/1.1 ") \o Chars(ToString(response.status.status)) \o SP
        \o Chars(response.status.reason) \o CRLF

\* The bytes of a written text between its status line and the CRLF that
\* precedes its body.
HeaderBlockOf(text, response) ==
    SubSeq(text, Len(StatusLineOf(response)) + 1,
           Len(text) - Len(response.body) - Len(CRLF))

IsWireFormat(text, response) ==
    LET block == HeaderBlockOf(text, response)
        ls    == Split(block, "\n")
    IN  /\ StartsWith(text, StatusLineOf(response))
        /\ Len(text) >= Len(StatusLineOf(response)) + Len(CRLF) + Len(response.body)
        /\ SubSeq(text, Len(text) - Len(response.body) - Len(CRLF) + 1, Len(text))
               = CRLF \o Chars(response.body)
        /\ Len(ls) = Cardinality(DOMAIN response.headers) + 1
        /\ ls[Len(ls)] = <<>>
        /\ \A k \in DOMAIN response.headers :
               Cardinality({n \in 1..(Len(ls) - 1) :
                   ls[n] = Chars(k) \o <<":">> \o Chars(response.headers[k])}) = 1

C12_WireFormat ==
    \A c \in DOMAIN conn :
        /\ Len(conn[c].wire) = Len(conn[c].sent)
        /\ \A i \in 1..Len(conn[c].wire) :
               IsWireFormat(Chars(conn[c].wire[i]), conn[c].sent[i])

\* A response with two headers has been written, Content-Type first.
C12_Witness ==
    \E c \in DOMAIN conn :
        /\ conn[c].pc = "returned"
        /\ conn[c].wire =
               <<"HTTP/1.1 200 OK\r\nContent-Type:text/plain\nContent-Length:4\n\r\nroot">>

(***************************************************************************)
(* C13: for every response written, built in or returned by a handler, the *)
(* reason phrase on the status line is the phrase http_code_reason gives   *)
(* for the status code of the response.                                    *)
(***************************************************************************)
\* The status line of a written text: its bytes up to the first CR.
WrittenStatusLine(text) == Before(text, "\r")

C13_ReasonFromTable ==
    \A c \in DOMAIN conn :
        \A i \in 1..Len(conn[c].wire) :
            LET code == conn[c].sent[i].status.status
            IN  /\ code \in DOMAIN ReasonTable
                /\ WrittenStatusLine(Chars(conn[c].wire[i])) =
                       Chars("HTTP/1.1 ") \o Chars(ToString(code)) \o SP
                           \o Chars(http_code_reason(code))

(***************************************************************************)
(* C14: whatever the outcomes of accept, the loop of listen goes on to the *)
(* next accept: a failed accept enqueues no job; a successful accept       *)
(* enqueues exactly one job for that connection, with a duplicate of the   *)
(* context, and the route table and the fallback stay the shared ones.     *)
(***************************************************************************)
\* A step of the accept loop: it is the only one that consumes an outcome.
AcceptStep == incoming' # incoming

C14_AcceptLoopContinues ==
    [][/\ AcceptStep =>
              /\ incoming # <<>>
              /\ incoming' = Tail(incoming)
              /\ IF Head(incoming).ok
                 THEN /\ Len(conn') = Len(conn) + 1
                      /\ \A c \in DOMAIN conn : conn'[c] = conn[c]
                      /\ conn'[Len(conn')].stream = Head(incoming).stream
                      /\ conn'[Len(conn')].pt = passthrough
                      /\ conn'[Len(conn')].pc = "queued"
                      /\ queue' = queue \o <<Len(conn')>>
                      /\ dropped' = dropped
                 ELSE /\ conn' = conn
                      /\ queue' = queue
                      /\ dropped' = dropped + 1
       /\ ~AcceptStep => Len(conn') = Len(conn) /\ Len(queue') <= Len(queue)
       /\ listeners' = listeners
       /\ default_404_listener' = default_404_listener
       /\ passthrough' = passthrough]_vars

\* Two accepts have failed and the connection accepted after them is queued
\* or being served.
C14_Witness ==
    /\ dropped = 2
    /\ incoming = <<>>
    /\ Len(conn) = 1
    /\ conn[1].pt = passthrough
    /\ conn[1].pc \in {"queued", "read_line"}

(***************************************************************************)
(* C15: a job that panics (its handler panics, or an unwrap of             *)
(* handle_stream fails) does not reduce the capacity of the pool: after    *)
(* the panic the pool still has all its workers, waiting or serving.       *)
(***************************************************************************)
LiveWorkers == {w \in 1..threads : worker[w] >= 0}

C15_PanicKeepsCapacity ==
    (\E c \in DOMAIN conn : conn[c].pc = "panicked") =>
        Cardinality(LiveWorkers) = threads

(***************************************************************************)
(* C16: jobs leave the queue in the order the accept loop enqueued them;   *)
(* under every interleaving of the acceptor and the workers a connection   *)
(* is dequeued by one worker only and handled at most once, and no two     *)
(* workers ever process the same connection.                               *)
(***************************************************************************)
Running(j) == j.pc \in {"read_line", "parse", "read_body", "dispatch", "close"}

HoldersOf(c) == {w \in 1..threads : worker[w] = c}

\* Connections are numbered in the order of their accept.
QueueInAcceptOrder ==
    \A a, b \in 1..Len(queue) : a < b => queue[a] < queue[b]

OneWorkerPerConnection ==
    \A c \in DOMAIN conn :
        /\ conn[c].pc = "queued" <=> \E a \in 1..Len(queue) : queue[a] = c
        /\ Cardinality(HoldersOf(c)) = IF Running(conn[c]) THEN 1 ELSE 0

\* A worker that starts a job takes the head of the queue, and a connection
\* that has left the queue never enters it or is started again.
TakesHeadOnce ==
    /\ \A w \in 1..threads :
           (worker'[w] > 0 /\ worker'[w] # worker[w]) =>
               /\ worker[w] = 0
               /\ queue # <<>>
               /\ worker'[w] = Head(queue)
               /\ queue' = Tail(queue)
    /\ \A c \in DOMAIN conn :
           /\ conn[c].pc # "queued" => conn'[c].pc # "queued"
           /\ Finished(conn[c]) => conn'[c] = conn[c]

C16_FifoExactlyOnce ==
    /\ [](QueueInAcceptOrder /\ OneWorkerPerConnection)
    /\ [][TakesHeadOnce]_vars

\* Two workers serve two connections while a third waits in the queue.
C16_Witness ==
    /\ threads = 2
    /\ worker[1] > 0 /\ worker[2] > 0 /\ worker[1] # worker[2]
    /\ queue = <<3>>

(***************************************************************************)
(* C17: for a valid request the body argument of the handler is exactly    *)
(* the first n bytes of the stream after the line that ended the header    *)
(* phase, n being the parsed value of the last header line that begins     *)
(* with "Content-Length" and has exactly one ':' (0 when there is none);   *)
(* the bytes after the first n are not part of the body.                   *)
(* As amended: ... when these n bytes are valid UTF-8; when they are not,  *)
(* the body argument is the empty string.                                  *)
(***************************************************************************)
\* The number of bytes of data up to the end of the first line, from pos on,
\* that is shorter than 3 bytes (the end of data ends a line).
RECURSIVE HeaderPhaseEnd(_, _)
HeaderPhaseEnd(data, pos) ==
    LET rest == SubSeq(data, pos + 1, Len(data))
        size == IF "\n" \in Range(rest) THEN Len(Before(rest, "\n")) + 1
                ELSE Len(rest)
    IN  IF size < 3 THEN pos + size ELSE HeaderPhaseEnd(data, pos + size)

HeaderPhaseOf(data) == SubSeq(data, 1, HeaderPhaseEnd(data, 0))

\* The number a Content-Length value stands for, 0 when it stands for none.
NumeralValue(v) ==
    LET d == IF v # <<>> /\ v[1] = "+" THEN Tail(v) ELSE v
    IN  IF IsNumeral(v) /\ FitsUsize(d) THEN DecVal(d) ELSE 0

DeclaredLength(data) ==
    IF HasLength(HeaderPhaseOf(data))
    THEN NumeralValue(LastLength(HeaderPhaseOf(data))) ELSE 0

FirstBodyBytes(data) ==
    SubSeq(data, HeaderPhaseEnd(data, 0) + 1,
           HeaderPhaseEnd(data, 0) + DeclaredLength(data))

IsUtf8(bytes) == InvalidByte \notin Range(bytes)

\* The claim as stated.
C17_BodyIsFirstNBytes ==
    \A c \in DOMAIN conn :
        \A i \in 1..Len(conn[c].calls) :
            conn[c].calls[i].body = FirstBodyBytes(conn[c].stream.data)

\* The claim as amended.
C17_BodyIsFirstNBytesUtf8 ==
    \A c \in DOMAIN conn :
        \A i \in 1..Len(conn[c].calls) :
            conn[c].calls[i].body =
                IF IsUtf8(FirstBodyBytes(conn[c].stream.data))
                THEN FirstBodyBytes(conn[c].stream.data) ELSE <<>>

\* Two Content-Length lines, the last one says 2, the client sent 3 bytes
\* after the blank line and the handler was given the first 2.
C17_Witness ==
    \E c \in DOMAIN conn :
        /\ conn[c].pc = "returned"
        /\ Cardinality(LengthLinesOf(HeaderPhaseOf(conn[c].stream.data))) = 2
        /\ DeclaredLength(conn[c].stream.data) = 2
        /\ Len(conn[c].stream.data) = HeaderPhaseEnd(conn[c].stream.data, 0) + 3
        /\ conn[c].calls # <<>>
        /\ conn[c].calls[1].body = Chars("hi")

(***************************************************************************)
(* C18: the header loop consumes lines into the buffer up to and including *)
(* the first line shorter than 3 bytes and stops, leaving the later bytes  *)
(* unread for the body phase; it also stops at the end of the stream (a    *)
(* read of 0 bytes), so it terminates on every finite input stream.        *)
(***************************************************************************)
InHeaderLoop(j) == j.pc = "read_line"

PastHeaderLoop(j) == j.pc \in {"parse", "read_body", "dispatch", "close"}

\* The buffer is what has been consumed; in the loop no short line has been
\* consumed yet, and past it the short line (or the end) was the last one.
HeaderLoopStopsAtShortLine ==
    \A c \in DOMAIN conn :
        LET j == conn[c]
            e == HeaderPhaseEnd(j.stream.data, 0)
        IN  /\ InHeaderLoop(j) =>
                   /\ j.request = SubSeq(j.stream.data, 1, j.pos)
                   /\ j.pos <= e
                   /\ j.pos = e => j.pos = Len(j.stream.data)
            /\ PastHeaderLoop(j) => j.request = HeaderPhaseOf(j.stream.data)
            /\ j.pc \in {"parse", "read_body"} => j.pos = e

\* An iteration that does not leave the loop consumes at least 3 bytes.
HeaderLoopAdvances ==
    \A c \in DOMAIN conn :
        (InHeaderLoop(conn[c]) /\ InHeaderLoop(conn'[c])) =>
            \/ conn'[c] = conn[c]
            \/ /\ conn'[c].pos >= conn[c].pos + 3
               /\ conn'[c].pos <= Len(conn[c].stream.data)

C18_HeaderLoopTerminates ==
    /\ []HeaderLoopStopsAtShortLine
    /\ [][HeaderLoopAdvances]_vars
    /\ \A c \in 1..MaxClients :
           (c \in DOMAIN conn /\ InHeaderLoop(conn[c]))
               ~> (c \in DOMAIN conn /\ ~InHeaderLoop(conn[c]))

\* The loop has stopped after the blank line of a request with a header line
\* and has left the 2 bytes that follow unread.
C18_Witness ==
    \E c \in DOMAIN conn :
        /\ conn[c].pc = "parse"
        /\ conn[c].stream.data = SampleRequest
        /\ conn[c].request \o Chars("hi") = SampleRequest
        /\ conn[c].pos = Len(SampleRequest) - 2

\* The loop has stopped at the end of a stream that has no short line.
C18_WitnessEof ==
    \E c \in DOMAIN conn :
        /\ conn[c].pc = "parse"
        /\ conn[c].pos = Len(conn[c].stream.data)
        /\ conn[c].pos >= 3
        /\ conn[c].stream.data[conn[c].pos] # "\n"

(***************************************************************************)
(* C19: under weak fairness of the workers, when every client delivers its *)
(* complete request and every handler returns, every accepted connection   *)
(* is eventually dequeued, has a response written and is closed, and every *)
(* worker eventually waits on the queue again: no connection stays pending *)
(* forever and the pool does not deadlock.                                 *)
(***************************************************************************)
Served(j) == j.pc = "returned" /\ j.sent # <<>>

AllServed ==
    /\ queue = <<>>
    /\ \A c \in DOMAIN conn : Served(conn[c])
    /\ \A w \in 1..threads : worker[w] = 0

\* From some point on, for good: nothing is left to accept or in the queue,
\* every accepted connection has its response written and is closed, and
\* every worker waits.
C19_EveryConnectionServed == <>[](incoming = <<>> /\ AllServed)

\* Three connections have been served by two workers.
C19_Witness ==
    /\ threads = 2
    /\ Len(conn) = 3
    /\ incoming = <<>>
    /\ AllServed

====
